---- MODULE Spec2Model ----
(***************************************************************************)
(* Model of the two locally implemented routines of the qdrant python      *)
(* client scripts:                                                         *)
(*   chunk_text               (document_loader.py, load_documents.py)      *)
(*   retrieve_for_llm_context (retriever.py), the context packing loop     *)
(* Strings are sequences of one-character strings.  Python offsets are     *)
(* 0-based; the helpers below translate to the 1-based TLA+ sequences.     *)
(***************************************************************************)
EXTENDS Integers, Sequences, FiniteSets, TLC

\* ------------------------------------------------------------------ bounds
MaxLen == 8
MaxChunkSize == 7
MaxSpecial == 2
MaxResults == 3

\* number of chunks the model records; later iterations still run
MaxChunks == 5

\* longest document list offered to load_documents
MaxDocs == 2

\* number of setup_hybrid_collection calls made one after the other
MaxSetupCalls == 3

\* largest max_retries offered to wait_for_qdrant_server
MaxRetries == 5

\* --------------------------------------------------------------- variables
VARIABLES
    text,        \* chunk_text argument
    chunk_size,  \* chunk_text argument
    overlap,     \* chunk_text argument
    pc,          \* "call", "loop", "done" (returned), "raised" (IndexError)
    start,       \* local start
    chunks,      \* local chunks (the first MaxChunks appended)
    spans,       \* history: <<start, end>> of every recorded chunk
    iters,       \* history: number of loop iterations run, modulo 2
    docs,        \* retrieve_for_llm_context: the list retrieve_documents returned
    max_tokens,  \* retrieve_for_llm_context argument
    ppc,         \* "idle", "call", "loop", "done" (returned)
    di,          \* position of the for loop in docs (1-based)
    context,     \* local context, a list of strings
    used_chars,  \* local used_chars
    out,         \* the returned string
    taken,       \* history: [idx, truncated] of every context.append
    loader,          \* the module whose load_documents runs, or "idle"
    documents,       \* load_documents argument
    metadata,        \* document_loader argument (None or a list)
    ids,             \* document_loader argument (None or a list)
    id_field,        \* load_documents.py argument (None or a field name)
    metadata_fields, \* load_documents.py argument (None or a list of names)
    doc_chunk_size,  \* load_documents argument chunk_size
    chunk_overlap,   \* load_documents argument
    batch_size,      \* load_documents argument
    collection_exists, \* load_documents.py: the store lists collection_name
    lpc,             \* "idle", "call", "doc", "chunk", "done", "raised", "hang"
    doc_i,           \* position of the document loop (1-based)
    doc_id,          \* local doc_id of the document being processed
    doc_meta,        \* local meta / metadata of the document being processed
    doc_chunks,      \* local chunks of the document being processed
    chunk_idx,       \* local chunk_idx / i of the chunk loop (0-based)
    all_points,      \* local all_points / batch_points
    all_chunk_ids,   \* local all_chunk_ids (document_loader.py)
    all_doc_ids,     \* local all_doc_ids (load_documents.py)
    result,          \* the returned list
    added,           \* history: [points, ok] of every client.add call
    made,            \* history: [doc, id, payload, parent] of every point built
    store,           \* the store: collection name -> the points it holds
    client_calls,    \* history: the client methods the running call has called
    force,           \* setup_hybrid_collection argument
    sparse_model,    \* setup_hybrid_collection argument (TRUE: a model name)
    setup_pc,        \* "idle", "ready", "check", "models", "add", "update", "delete"
    setup_result,    \* what the last setup_hybrid_collection call returned
    setup_calls,     \* number of setup_hybrid_collection calls started
    max_retries,     \* wait_for_qdrant_server argument
    retry_interval,  \* wait_for_qdrant_server argument
    wait_i,          \* the loop variable i
    wait_pc,         \* "idle", "attempt", "sleep", "done"
    wait_result,     \* "none", "client" or "None"
    wait_events,     \* history: the attempts and sleeps of the call, in order
    create_name,     \* create_llm_collection argument collection_name
    overwrite,       \* create_llm_collection argument
    create_pc,       \* "idle", "call", "create", "done", "raised"
    create_result,   \* "none" or "True"
    found_store,     \* history: the store at the time of the call
    json_data,       \* load_from_json: what json.load returned
    json_documents,  \* load_from_json local documents
    json_metadata,   \* load_from_json local metadata
    json_pc,         \* "idle", "call", "built", "done", "raised"
    query_args,      \* query_documents arguments of the running call
    has_sparse_model, \* the client has a sparse embedding model set
    collection_known, \* the store lists the collection queried
    query_pc,        \* "idle", "ready", "validate", "send"
    search_type,     \* local search_type
    query_result,    \* what the last query_documents call returned
    requests         \* history: [args, request] of every client.query call

cvars == <<text, chunk_size, overlap, pc, start, chunks, spans, iters>>
pvars == <<docs, max_tokens, ppc, di, context, used_chars, out, taken>>
largs == <<loader, documents, metadata, ids, id_field, metadata_fields,
           doc_chunk_size, chunk_overlap, batch_size, collection_exists>>
llocals == <<lpc, doc_i, doc_id, doc_meta, doc_chunks, chunk_idx, all_points,
             all_chunk_ids, all_doc_ids, result, added, made>>
lvars == <<largs, llocals>>
svars == <<store, client_calls, force, sparse_model, setup_pc, setup_result, setup_calls>>
wvars == <<max_retries, retry_interval, wait_i, wait_pc, wait_result, wait_events>>
kvars == <<create_name, overwrite, create_pc, create_result, found_store>>
jvars == <<json_data, json_documents, json_metadata, json_pc>>
qvars == <<query_args, has_sparse_model, collection_known, query_pc, search_type,
           query_result, requests>>
xvars == <<svars, wvars, kvars, jvars, qvars>>
vars == <<cvars, pvars, lvars, xvars>>

\* ------------------------------------------------------- string primitives
Min(a, b) == IF a < b THEN a ELSE b
Max(a, b) == IF a > b THEN a ELSE b

Letter == "a"
Alphabet == {Letter, ".", " ", "\n"}

\* str.isspace() on one character
IsSpace(c) == c \in {" ", "\n", "\t", "\r"}

\* c in '.!?\n'
IsSentenceEnd(c) == c \in {".", "!", "?", "\n"}

\* a Python index i is legal on s
InRange(s, i) == i >= -Len(s) /\ i < Len(s)

\* s[i] with Python's negative indices (i must be InRange)
PyAt(s, i) == IF i < 0 THEN s[Len(s) + i + 1] ELSE s[i + 1]

\* slice bound normalisation of s[a:b]
PyClamp(s, a) == IF a < 0 THEN Max(Len(s) + a, 0) ELSE Min(a, Len(s))

\* s[a:b]
PySlice(s, a, b) == SubSeq(s, PyClamp(s, a) + 1, PyClamp(s, b))

RECURSIVE LStrip(_)
LStrip(s) == IF s # <<>> /\ IsSpace(Head(s)) THEN LStrip(Tail(s)) ELSE s

RECURSIVE RStrip(_)
RStrip(s) ==
    IF s # <<>> /\ IsSpace(s[Len(s)]) THEN RStrip(SubSeq(s, 1, Len(s) - 1)) ELSE s

\* str.strip()
Strip(s) == RStrip(LStrip(s))

\* p is a prefix of s
IsPrefix(p, s) == Len(p) <= Len(s) /\ SubSeq(s, 1, Len(p)) = p

\* --------------------------------------------------------------- chunk_text
\* texts offered to a call: at most MaxSpecial characters other than Letter
RECURSIVE TextsOf(_, _)
TextsOf(n, j) ==
    IF n = 0 THEN {<<>>}
    ELSE {Append(t, Letter) : t \in TextsOf(n - 1, j)}
         \cup (IF j = 0 THEN {}
               ELSE {Append(t, c) : t \in TextsOf(n - 1, j - 1), c \in Alphabet \ {Letter}})
Texts == UNION {TextsOf(n, MaxSpecial) : n \in 0..MaxLen}

TentativeEndOffByOne(t, s, cs) == Min(s + cs + 1, Len(t))

\* end = min(start + chunk_size, len(text))
TentativeEnd(t, s, cs) == Min(s + cs, Len(t))

ScanRangeInclusive(s, e, cs) == Max(s + cs \div 2, s) .. (e - 1)

\* range(end-1, max(start+chunk_size//2, start), -1), as a set
ScanRange(s, e, cs) == (Max(s + cs \div 2, s) + 1) .. (e - 1)

\* the condition of the if inside the scan, for an index Python can read
IsBoundaryAt(t, i) ==
    /\ IsSentenceEnd(PyAt(t, i))
    /\ (i + 1 >= Len(t) \/ IsSpace(PyAt(t, i + 1)))

ScanHits(t, s, e, cs) ==
    {i \in ScanRange(s, e, cs) : InRange(t, i) /\ IsBoundaryAt(t, i)}

\* the scan runs downward and stops at its first hit, so text[i] raises
\* IndexError exactly when an index below -len(text) is reached before a hit;
\* every such index is below every readable one
ScanRaises(t, s, e, cs) ==
    /\ ScanHits(t, s, e, cs) = {}
    /\ \E i \in ScanRange(s, e, cs) : ~InRange(t, i)

SetMax(S) == CHOOSE x \in S : \A y \in S : y <= x

\* the value of end after the "if end < len(text)" block
SnappedEnd(t, s, cs) ==
    LET e == TentativeEnd(t, s, cs) IN
    IF e < Len(t) /\ ScanHits(t, s, e, cs) # {}
    THEN SetMax(ScanHits(t, s, e, cs)) + 1
    ELSE e

IterationRaises(t, s, cs) ==
    LET e == TentativeEnd(t, s, cs) IN e < Len(t) /\ ScanRaises(t, s, e, cs)

\* below this offset every iteration behaves alike (empty slice or
\* IndexError), so the model stores no start lower than it
StartFloor(t, cs) == -(Len(t) + cs)

NextStartSkipsOne(t, e, cs, ov) == Max(e - ov + 1, StartFloor(t, cs))

\* start = end - overlap
NextStart(t, e, cs, ov) == Max(e - ov, StartFloor(t, cs))

\* chunks.append(text[start:end].strip())
ChunkOf(t, s, e) == Strip(PySlice(t, s, e))

ReturnsWholeStrict(t, cs) == Len(t) < cs

\* if len(text) <= chunk_size
ReturnsWhole(t, cs) == Len(t) <= cs

WholeResultStripped(t) == <<Strip(t)>>

\* return [text]
WholeResult(t) == <<t>>

\* the while loop as a function of start: the chunks appended from start s
\* on, after acc.  An iteration is determined by start alone, so a start
\* seen before means the loop repeats for ever ("hang").
RECURSIVE ChunkRun(_, _, _, _, _, _)
ChunkRun(t, s, cs, ov, acc, seen) ==
    IF s >= Len(t) THEN [status |-> "done", chunks |-> acc]
    ELSE IF s \in seen THEN [status |-> "hang", chunks |-> acc]
    ELSE IF IterationRaises(t, s, cs) THEN [status |-> "raised", chunks |-> acc]
    ELSE LET e == SnappedEnd(t, s, cs) IN
         ChunkRun(t, NextStart(t, e, cs, ov), cs, ov,
                  Append(acc, ChunkOf(t, s, e)), seen \cup {s})

\* chunk_text(t, cs, ov): how the call ends and the list it has built
ChunkTextResult(t, cs, ov) ==
    IF ReturnsWhole(t, cs)
    THEN [status |-> "done", chunks |-> WholeResult(t)]
    ELSE ChunkRun(t, 0, cs, ov, <<>>, {})

\* no context assembly is in progress
PackIdle ==
    /\ docs = <<>>
    /\ max_tokens = 0
    /\ ppc = "idle"
    /\ di = 1
    /\ context = <<>>
    /\ used_chars = 0
    /\ out = <<>>
    /\ taken = <<>>

\* no chunk_text call is in progress
ChunkIdle ==
    /\ text = <<>>
    /\ chunk_size = 1
    /\ overlap = 0
    /\ pc = "idle"
    /\ start = 0
    /\ chunks = <<>>
    /\ spans = <<>>
    /\ iters = 0

\* Optional arguments: None, or a value that was passed
None == {}
Some(x) == {x}
IsNone(o) == o = {}
Get(o) == CHOOSE x \in o : TRUE

\* dict()
EmptyDict == [k \in {} |-> <<>>]

\* no load_documents call is running
LoadIdle ==
    /\ loader = "idle"
    /\ documents = <<>>
    /\ metadata = None
    /\ ids = None
    /\ id_field = None
    /\ metadata_fields = None
    /\ doc_chunk_size = 1
    /\ chunk_overlap = 0
    /\ batch_size = 1
    /\ collection_exists = FALSE
    /\ lpc = "idle"
    /\ doc_i = 1
    /\ doc_id = <<>>
    /\ doc_meta = EmptyDict
    /\ doc_chunks = <<>>
    /\ chunk_idx = 0
    /\ all_points = <<>>
    /\ all_chunk_ids = <<>>
    /\ all_doc_ids = <<>>
    /\ result = <<>>
    /\ added = <<>>
    /\ made = <<>>

\* no setup_hybrid_collection call is running and the store is empty
SetupIdle ==
    /\ store = EmptyDict
    /\ client_calls = <<>>
    /\ force = FALSE
    /\ sparse_model = FALSE
    /\ setup_pc = "idle"
    /\ setup_result = "none"
    /\ setup_calls = 0

\* no wait_for_qdrant_server call is running
WaitIdle ==
    /\ max_retries = 0
    /\ retry_interval = 0
    /\ wait_i = 0
    /\ wait_pc = "idle"
    /\ wait_result = "none"
    /\ wait_events = <<>>

\* no create_llm_collection call is running
CreateIdle ==
    /\ create_name = ""
    /\ overwrite = FALSE
    /\ create_pc = "idle"
    /\ create_result = "none"
    /\ found_store = EmptyDict

\* no load_from_json call is running
JsonIdle ==
    /\ json_data = [is_list |-> TRUE, items |-> <<>>]
    /\ json_documents = <<>>
    /\ json_metadata = <<>>
    /\ json_pc = "idle"

\* no query_documents call is running
QueryIdle ==
    /\ query_args = EmptyDict
    /\ has_sparse_model = FALSE
    /\ collection_known = FALSE
    /\ query_pc = "idle"
    /\ search_type = ""
    /\ query_result = "none"
    /\ requests = <<>>

\* the routines outside chunking, packing and loading are idle
OthersIdle == SetupIdle /\ WaitIdle /\ CreateIdle /\ JsonIdle /\ QueryIdle

InitChunk ==
    /\ text \in Texts
    /\ chunk_size \in 1..MaxChunkSize
    /\ overlap \in 0..(chunk_size + 1)
    /\ pc = "call"
    /\ start = 0
    /\ chunks = <<>>
    /\ spans = <<>>
    /\ iters = 0
    /\ PackIdle
    /\ LoadIdle
    /\ OthersIdle

\* if len(text) <= chunk_size: return [text]
ReturnWhole ==
    /\ pc = "call"
    /\ ReturnsWhole(text, chunk_size)
    /\ chunks' = WholeResult(text)
    /\ spans' = <<<<0, Len(text)>>>>
    /\ pc' = "done"
    /\ UNCHANGED <<text, chunk_size, overlap, start, iters, pvars, lvars, xvars>>

\* chunks = []; start = 0
EnterLoop ==
    /\ pc = "call"
    /\ ~ReturnsWhole(text, chunk_size)
    /\ chunks' = <<>>
    /\ start' = 0
    /\ pc' = "loop"
    /\ UNCHANGED <<text, chunk_size, overlap, spans, iters, pvars, lvars, xvars>>

\* one pass through the while body
Iterate ==
    /\ pc = "loop"
    /\ start < Len(text)
    /\ iters' = (iters + 1) % 2
    /\ IF IterationRaises(text, start, chunk_size)
       THEN /\ pc' = "raised"
            /\ UNCHANGED <<start, chunks, spans>>
       ELSE LET e == SnappedEnd(text, start, chunk_size) IN
            /\ IF Len(chunks) < MaxChunks
               THEN /\ chunks' = Append(chunks, ChunkOf(text, start, e))
                    /\ spans' = Append(spans, <<start, e>>)
               ELSE UNCHANGED <<chunks, spans>>
            /\ start' = NextStart(text, e, chunk_size, overlap)
            /\ pc' = "loop"
    /\ UNCHANGED <<text, chunk_size, overlap, pvars, lvars, xvars>>

\* the while condition fails: return chunks
ReturnChunks ==
    /\ pc = "loop"
    /\ start >= Len(text)
    /\ pc' = "done"
    /\ UNCHANGED <<text, chunk_size, overlap, start, chunks, spans, iters, pvars, lvars, xvars>>

NextChunk == ReturnWhole \/ EnterLoop \/ Iterate \/ ReturnChunks

SpecChunk == InitChunk /\ [][NextChunk]_vars

\* the scheduler keeps running a call that can take a step
FairSpecChunk == SpecChunk /\ WF_vars(NextChunk)

\* the call of the specification's first scenario
Scenario1 ==
    [text |-> <<"H", "e", "l", "l", "o", " ", "w", "o", "r", "l", "d", ".", " ", "T", "h", "i", "s", " ", "i", "s", " ", "a", " ", "t", "e", "s", "t", ".">>,
     chunk_size |-> 15, overlap |-> 3]

\* calls on the scenario's text and on its prefixes, with and without overlap
InitScenario ==
    /\ \E n \in 0..Len(Scenario1.text) : text = SubSeq(Scenario1.text, 1, n)
    /\ chunk_size = Scenario1.chunk_size
    /\ overlap \in {0, Scenario1.overlap}
    /\ pc = "call"
    /\ start = 0
    /\ chunks = <<>>
    /\ spans = <<>>
    /\ iters = 0
    /\ PackIdle
    /\ LoadIdle
    /\ OthersIdle

SpecScenario == InitScenario /\ [][NextChunk]_vars

\* calls without overlap
InitNoOverlap ==
    /\ text \in Texts
    /\ chunk_size \in 1..MaxChunkSize
    /\ overlap = 0
    /\ pc = "call"
    /\ start = 0
    /\ chunks = <<>>
    /\ spans = <<>>
    /\ iters = 0
    /\ PackIdle
    /\ LoadIdle
    /\ OthersIdle

SpecNoOverlap == InitNoOverlap /\ [][NextChunk]_vars

\* the scheduler keeps running a call that can take a step
FairSpecNoOverlap == SpecNoOverlap /\ WF_vars(NextChunk)

\* ------------------------------------------------------ chunk_text: claims
ValidArgs == 0 <= overlap /\ overlap < chunk_size

\* the characters of text that the slice text[a:b] covers, as offsets
SliceOffsets(t, a, b) == {i \in 0..(Len(t) - 1) : PyClamp(t, a) <= i /\ i < PyClamp(t, b)}

\* C1: with chunk_size > 0 and 0 <= overlap < chunk_size every call of
\* chunk_text terminates and returns its (finite) list of chunks.
C1_ChunkTextTerminates == ValidArgs => <>(pc = "done")

\* C3: with 0 <= overlap < chunk_size every loop iteration leaves start
\* strictly greater than it found it, also after a sentence-boundary snap.
C3_StartStrictlyIncreases ==
    [][(ValidArgs /\ pc = "loop" /\ pc' = "loop") => start' > start]_vars

\* C4: every emitted chunk has length <= chunk_size, and the source text is
\* returned whole only when len(text) <= chunk_size.
C4_ChunkLengthBounded ==
    \A k \in 1..Len(chunks) :
        /\ Len(chunks[k]) <= chunk_size
        /\ (chunks[k] = text => Len(text) <= chunk_size)

\* C4 witness: a run through the loop has emitted several chunks, one of
\* them exactly chunk_size long, after a snap shortened another
C4_Witness ==
    /\ ValidArgs
    /\ pc = "loop"
    /\ Len(chunks) >= 3
    /\ \E k \in 1..Len(chunks) : Len(chunks[k]) = chunk_size
    /\ \E k \in 1..Len(spans) :
           spans[k][2] < TentativeEnd(text, spans[k][1], chunk_size)

\* C5: a call with overlap >= chunk_size is rejected before any chunk is
\* produced: it never enters the loop, never returns and never emits a chunk.
C5_BadOverlapRejected ==
    overlap >= chunk_size => (pc \notin {"loop", "done"} /\ chunks = <<>>)

\* C7: with valid arguments, the source slice of chunk i+1 begins at an
\* offset <= end_i - overlap, end_i being the (snapped) end of chunk i.
C7_NextChunkBeginsAtOrBeforeEndMinusOverlap ==
    ValidArgs =>
        \A k \in 1..(Len(spans) - 1) :
            PyClamp(text, spans[k + 1][1]) <= spans[k][2] - overlap

\* C8: with valid arguments, the source ranges of consecutive chunks i and
\* i+1 share at least overlap characters unless chunk i+1 is the last one,
\* also when chunk i was shortened by the snap.
C8_ConsecutiveChunksShareOverlap ==
    ValidArgs =>
        \A k \in 1..(Len(spans) - 2) :
            Cardinality(SliceOffsets(text, spans[k][1], spans[k][2])
                        \cap SliceOffsets(text, spans[k + 1][1], spans[k + 1][2]))
                >= overlap

\* C13: a text no longer than chunk_size is returned as the single chunk
\* [text], unstripped, whatever the overlap; the empty text gives [""].
C13_ShortTextReturnedWhole ==
    (Len(text) <= chunk_size /\ pc \notin {"idle", "call"}) =>
        (pc = "done" /\ chunks = <<text>>)

\* C13 witness: a text with blanks at both ends came back whole under an
\* overlap that is not below chunk_size
C13_Witness ==
    /\ pc = "done"
    /\ Len(text) >= 2
    /\ Len(text) <= chunk_size
    /\ IsSpace(text[1]) /\ IsSpace(text[Len(text)])
    /\ overlap >= chunk_size
    /\ chunks = <<text>>

IsScenario1 ==
    /\ text = Scenario1.text
    /\ chunk_size = Scenario1.chunk_size
    /\ overlap = Scenario1.overlap

HelloWorld == <<"H", "e", "l", "l", "o", " ", "w", "o", "r", "l", "d", ".">>
ThisIsATest == <<"T", "h", "i", "s", " ", "i", "s", " ", "a", " ", "t", "e", "s", "t", ".">>

\* C14 as stated: the scenario call returns exactly ["Hello world.",
\* "This is a test."], so the list it builds is always a prefix of that list.
C14_ScenarioTwoChunks ==
    IsScenario1 =>
        /\ IsPrefix(chunks, <<HelloWorld, ThisIsATest>>)
        /\ pc = "done" => chunks = <<HelloWorld, ThisIsATest>>

\* C17: re-chunking any chunk the call produced, with the same chunk_size
\* and overlap, returns exactly that chunk.
C17_RechunkIsIdentity ==
    \A k \in 1..Len(chunks) :
        ChunkTextResult(chunks[k], chunk_size, overlap)
            = [status |-> "done", chunks |-> <<chunks[k]>>]

\* C17 witness: a call with valid arguments returned several chunks, one of
\* them as long as chunk_size
C17_Witness ==
    /\ ValidArgs
    /\ pc = "done"
    /\ Len(chunks) >= 2
    /\ \E k \in 1..Len(chunks) : Len(chunks[k]) = chunk_size

\* text[i] is one of . ! ? newline and is the last character of the text or
\* is followed by whitespace
SentenceBoundaryAt(i) ==
    /\ InRange(text, i)
    /\ PyAt(text, i) \in {".", "!", "?", "\n"}
    /\ (i = Len(text) - 1 \/ PyAt(text, i + 1) \in {" ", "\n", "\t", "\r"})

\* the end the snap rule gives an iteration that starts at s, when the scan
\* window is lo..(tentative end - 1)
SnapRuleEnd(s, lo) ==
    LET tentative == IF s + chunk_size < Len(text) THEN s + chunk_size ELSE Len(text)
        found == {i \in lo..(tentative - 1) : SentenceBoundaryAt(i)}
    IN  IF tentative < Len(text) /\ found # {}
        THEN (CHOOSE i \in found : \A j \in found : j <= i) + 1
        ELSE tentative

HalfWindow(s) == IF chunk_size \div 2 > 0 THEN s + chunk_size \div 2 ELSE s

\* C19 as stated: the scan window includes its lower bound
\* max(start + chunk_size // 2, start).
C19_SnapWindowInclusive ==
    ValidArgs =>
        \A k \in 1..Len(spans) :
            spans[k][2] = SnapRuleEnd(spans[k][1], HalfWindow(spans[k][1]))

\* C19 amended: end becomes one past the highest index i with
\* max(start + chunk_size // 2, start) < i <= end - 1 that is a sentence
\* boundary; without such an index the tentative end is kept.
C19_SnapWindowExclusive ==
    \A k \in 1..Len(spans) :
        spans[k][2] = SnapRuleEnd(spans[k][1], HalfWindow(spans[k][1]) + 1)

\* C19 witness: one iteration kept its tentative end although a sentence
\* boundary sits exactly on the lower bound, and another iteration snapped
C19_Witness ==
    /\ ValidArgs
    /\ pc = "loop"
    /\ \E k \in 1..Len(spans) :
          /\ SentenceBoundaryAt(HalfWindow(spans[k][1]))
          /\ spans[k][2] = spans[k][1] + chunk_size
          /\ spans[k][2] < Len(text)
    /\ \E k \in 1..Len(spans) :
          /\ spans[k][2] < spans[k][1] + chunk_size
          /\ spans[k][2] < Len(text)

\* the slices taken so far start at 0 and each starts where the one before
\* it ended; the loop variable start is where the last slice ended; a call
\* that returned took its last slice up to len(text)
SlicesPartition ==
    /\ pc # "raised"
    /\ Len(spans) >= 1 => spans[1][1] = 0
    /\ \A k \in 1..Len(spans) : spans[k][1] < spans[k][2] /\ spans[k][2] <= Len(text)
    /\ \A k \in 1..(Len(spans) - 1) : spans[k + 1][1] = spans[k][2]
    /\ (pc = "loop" /\ Len(spans) >= 1 /\ Len(spans) < MaxChunks) =>
           start = spans[Len(spans)][2]
    /\ pc = "done" => start = Len(text)

CHARS_PER_TOKEN == 4
\* "if remaining_chars > 100"
MinRemaining == 100
\* "doc_context[:remaining_chars-3]"
MarkerRoom == 3

Marker == <<".", ".", ".">>
UnknownSource == <<"U", "n", "k", "n", "o", "w", "n", " ", "s", "o", "u", "r", "c", "e">>
LabelId == <<"D", "o", "c", "u", "m", "e", "n", "t", " ", "I", "D", ":", " ">>
LabelSource == <<"\n", "S", "o", "u", "r", "c", "e", ":", " ">>
LabelContent == <<"\n", "C", "o", "n", "t", "e", "n", "t", ":", " ">>
EntryEnd == <<"\n", "\n">>

Digit(d) == <<"0", "1", "2", "3", "4", "5", "6", "7", "8", "9">>[d + 1]

\* str(n) of a non-negative integer id
RECURSIVE Str(_)
Str(n) == IF n < 10 THEN <<Digit(n)>> ELSE Str(n \div 10) \o <<Digit(n % 10)>>

\* a text of n characters
Filled(n) == [k \in 1..n |-> "x"]

\* the inputs offered to a call
TextLens == {0, 3, 4, 130}
TokenChoices == {-1, 0, 10, 35, 50}
SourceChoices == {<<"s">>}

\* what the store returns for one hit: an id and a payload that may be
\* empty and may lack the keys "text" and "source"
NoPayload == [hasPayload |-> FALSE, hasText |-> FALSE, text |-> <<>>,
              hasSource |-> FALSE, source |-> <<>>]
Payloads ==
    {NoPayload}
    \cup {[hasPayload |-> TRUE, hasText |-> FALSE, text |-> <<>>,
           hasSource |-> src # <<>>, source |-> src] : src \in {<<>>} \cup SourceChoices}
    \cup {[hasPayload |-> TRUE, hasText |-> TRUE, text |-> Filled(n),
           hasSource |-> src # <<>>, source |-> src] :
            n \in TextLens, src \in {<<>>} \cup SourceChoices}

\* the store gives every point its own id
IdOf(k) == 7 + k

\* retrieve_documents builds one dict per hit: "payload" only for a truthy
\* payload, "text" only when the payload has that key
ToDoc(id, p) ==
    [id |-> id,
     hasPayload |-> p.hasPayload,
     hasSource |-> p.hasPayload /\ p.hasSource,
     source |-> p.source,
     hasText |-> p.hasPayload /\ p.hasText,
     text |-> p.text]

\* the list retrieve_documents returns for the hits with payloads ps
DocsOf(ps) == [k \in 1..Len(ps) |-> ToDoc(IdOf(k), ps[k])]

TokenBudgetOneMore(mt) == mt * CHARS_PER_TOKEN + 1

\* token_budget = max_tokens * CHARS_PER_TOKEN
TokenBudget(mt) == mt * CHARS_PER_TOKEN

\* doc.get("payload", {}).get("source", "Unknown source")
SourceOf(doc) == IF doc.hasPayload /\ doc.hasSource THEN doc.source ELSE UnknownSource

\* f"Document ID: {doc_id}\nSource: {source}\nContent: {text}\n\n"
FormatEntry(doc) ==
    LabelId \o Str(doc.id) \o LabelSource \o SourceOf(doc)
            \o LabelContent \o doc.text \o EntryEnd

\* used_chars + len(doc_context) <= token_budget
Fits(used, n, budget) == used + n <= budget

TruncatedNoRoom(entry, remaining) == PySlice(entry, 0, remaining) \o Marker

\* doc_context[:remaining_chars-3] + "..."
Truncated(entry, remaining) == PySlice(entry, 0, remaining - MarkerRoom) \o Marker

AfterBreakContinues(i, n) == i + 1

AfterSkipStops(i, n) == n + 1

\* the position of the for loop after a doc that fails "text" in doc: the
\* if has no else, so the loop goes on with the next doc
AfterSkip(i, n) == i + 1

\* the position of the for loop after "break": past the last doc
AfterBreak(i, n) == n + 1

RECURSIVE JoinReversed(_)
JoinReversed(ss) == IF ss = <<>> THEN <<>> ELSE JoinReversed(Tail(ss)) \o Head(ss)

\* "".join(context)
RECURSIVE Join(_)
Join(ss) == IF ss = <<>> THEN <<>> ELSE Head(ss) \o Join(Tail(ss))

\* lines 195-223 as a function of the doc list: the string a call returns
\* from position i on with context ctx and used_chars used
RECURSIVE PackRun(_, _, _, _, _)
PackRun(ds, i, ctx, used, mt) ==
    IF i > Len(ds) THEN Join(ctx)
    ELSE LET doc == ds[i]
             entry == FormatEntry(doc)
             remaining == TokenBudget(mt) - used
         IN  IF ~doc.hasText
             THEN PackRun(ds, AfterSkip(i, Len(ds)), ctx, used, mt)
             ELSE IF Fits(used, Len(entry), TokenBudget(mt))
             THEN PackRun(ds, i + 1, Append(ctx, entry), used + Len(entry), mt)
             ELSE PackRun(ds, AfterBreak(i, Len(ds)),
                          IF remaining > MinRemaining
                          THEN Append(ctx, Truncated(entry, remaining)) ELSE ctx,
                          used, mt)

\* the context a call returns for the docs ds and max_tokens mt
PackResult(ds, mt) == PackRun(ds, 1, <<>>, 0, mt)

InitPack ==
    /\ ChunkIdle
    /\ LoadIdle
    /\ OthersIdle
    /\ \E n \in 0..MaxResults : \E ps \in [1..n -> Payloads] : docs = DocsOf(ps)
    /\ max_tokens \in TokenChoices
    /\ ppc = "call"
    /\ di = 1
    /\ context = <<>>
    /\ used_chars = 0
    /\ out = <<>>
    /\ taken = <<>>

PackEnterSharedList ==
    /\ ppc = "call"
    /\ context' = <<>>
    /\ chunks' = <<>>
    /\ used_chars' = 0
    /\ di' = 1
    /\ ppc' = "loop"
    /\ UNCHANGED <<docs, max_tokens, out, taken, lvars, xvars,
                   text, chunk_size, overlap, pc, start, spans, iters>>

\* context = []; used_chars = 0
PackEnter ==
    /\ ppc = "call"
    /\ context' = <<>>
    /\ used_chars' = 0
    /\ di' = 1
    /\ ppc' = "loop"
    /\ UNCHANGED <<docs, max_tokens, out, taken, cvars, lvars, xvars>>

\* one pass through the body of "for doc in docs"
PackStep ==
    /\ ppc = "loop"
    /\ di <= Len(docs)
    /\ LET doc == docs[di]
           entry == FormatEntry(doc)
           remaining == TokenBudget(max_tokens) - used_chars
       IN  IF ~doc.hasText
           THEN /\ di' = AfterSkip(di, Len(docs))
                /\ UNCHANGED <<context, used_chars, taken>>
           ELSE IF Fits(used_chars, Len(entry), TokenBudget(max_tokens))
           THEN /\ context' = Append(context, entry)
                /\ used_chars' = used_chars + Len(entry)
                /\ taken' = Append(taken, [idx |-> di, truncated |-> FALSE])
                /\ di' = di + 1
           ELSE /\ IF remaining > MinRemaining
                   THEN /\ context' = Append(context, Truncated(entry, remaining))
                        /\ taken' = Append(taken, [idx |-> di, truncated |-> TRUE])
                   ELSE UNCHANGED <<context, taken>>
                /\ di' = AfterBreak(di, Len(docs))
                /\ UNCHANGED used_chars
    /\ ppc' = "loop"
    /\ UNCHANGED <<docs, max_tokens, out, cvars, lvars, xvars>>

\* return "".join(context)
PackReturn ==
    /\ ppc = "loop"
    /\ di > Len(docs)
    /\ out' = Join(context)
    /\ ppc' = "done"
    /\ UNCHANGED <<docs, max_tokens, di, context, used_chars, taken, cvars, lvars, xvars>>

NextPack == PackEnter \/ PackStep \/ PackReturn

SpecPack == InitPack /\ [][NextPack]_vars

\* --------------------------------------- retrieve_for_llm_context: claims
\* positions of the docs that carry a text
TextPositions == {k \in 1..Len(docs) : docs[k].hasText}

\* total length of the formatted entries of the text-bearing docs 1..k
RECURSIVE EntryLenUpTo(_)
EntryLenUpTo(k) ==
    IF k = 0 THEN 0
    ELSE EntryLenUpTo(k - 1)
         + (IF docs[k].hasText THEN Len(FormatEntry(docs[k])) ELSE 0)

\* the formatted entries of the text-bearing docs 1..k, in input order
RECURSIVE EntriesUpTo(_)
EntriesUpTo(k) ==
    IF k = 0 THEN <<>>
    ELSE EntriesUpTo(k - 1)
         \o (IF docs[k].hasText THEN FormatEntry(docs[k]) ELSE <<>>)

\* the first text-bearing doc whose entry does not fit what is left
FirstMiss(k) ==
    /\ k \in TextPositions
    /\ EntryLenUpTo(k) > TokenBudget(max_tokens)
    /\ EntryLenUpTo(k - 1) <= TokenBudget(max_tokens)

\* C2: for every list of results and every max_tokens the returned context
\* has length <= max_tokens * 4.
C2_ContextWithinBudget ==
    ppc = "done" => Len(out) <= max_tokens * CHARS_PER_TOKEN

\* C6: a call with max_tokens <= 0 fails instead of returning a string.
C6_NonPositiveMaxTokensRejected == max_tokens <= 0 => ppc # "done"

\* C9: if the text-bearing results among the first k together fit the budget,
\* the returned context begins with exactly their formatted entries, in
\* input order.
C9_FittingPrefixInOrder ==
    ppc = "done" =>
        \A k \in 0..Len(docs) :
            EntryLenUpTo(k) <= TokenBudget(max_tokens) => IsPrefix(EntriesUpTo(k), out)

\* C9 witness: two entries fitted, a later one did not and was appended
\* truncated
C9_Witness ==
    /\ ppc = "done"
    /\ Len(taken) = 3
    /\ taken[3].truncated
    /\ \E k \in 1..Len(docs) :
          /\ Cardinality({j \in TextPositions : j <= k}) = 2
          /\ EntryLenUpTo(k) <= TokenBudget(max_tokens)
          /\ EntryLenUpTo(Len(docs)) > TokenBudget(max_tokens)

\* C10: once an entry does not fit, no later result is included, and when at
\* most 100 characters remain the entry that did not fit adds nothing.
C10_NothingAfterFirstMiss ==
    \A k \in 1..Len(docs) :
        FirstMiss(k) =>
            /\ \A n \in 1..Len(taken) : taken[n].idx <= k
            /\ TokenBudget(max_tokens) - EntryLenUpTo(k - 1) <= MinRemaining =>
                  /\ \A n \in 1..Len(taken) : taken[n].idx < k
                  /\ ppc = "done" => out = EntriesUpTo(k - 1)

\* C10 witness: an entry was left out with room (<= 100) for a later, shorter
\* entry, and the call returned an earlier entry only
C10_Witness ==
    /\ ppc = "done"
    /\ taken # <<>>
    /\ \E k \in 1..Len(docs) :
          /\ FirstMiss(k)
          /\ TokenBudget(max_tokens) - EntryLenUpTo(k - 1) <= MinRemaining
          /\ \E j \in TextPositions :
                /\ j > k
                /\ Len(FormatEntry(docs[j])) <= TokenBudget(max_tokens) - EntryLenUpTo(k - 1)

\* C11: at most one entry is truncated; it is the last entry, it is made only
\* when more than 100 characters remain, it is the first remaining-3
\* characters of the formatted entry followed by "...", and every entry
\* before it is verbatim.
C11_OnlyLastEntryTruncated ==
    /\ Len(context) = Len(taken)
    /\ \A n \in 1..Len(taken) :
          LET k == taken[n].idx
              entry == FormatEntry(docs[k])
              remaining == TokenBudget(max_tokens) - EntryLenUpTo(k - 1)
          IN  IF taken[n].truncated
              THEN /\ n = Len(taken)
                   /\ remaining > MinRemaining
                   /\ context[n] = SubSeq(entry, 1, remaining - 3) \o <<".", ".", ".">>
                   /\ ppc = "done" => out = EntriesUpTo(k - 1) \o context[n]
              ELSE context[n] = entry

\* C11 witness: the call returned one whole entry followed by a truncated one
C11_Witness ==
    /\ ppc = "done"
    /\ Len(taken) = 2
    /\ ~taken[1].truncated
    /\ taken[2].truncated
    /\ Len(out) > Len(FormatEntry(docs[taken[1].idx]))

\* the docs that carry a text, in input order
TextDocs == SelectSeq(docs, LAMBDA d : d.hasText)

\* C12: a result without a text adds no entry, uses no budget and does not
\* stop the loop: the call returns what it returns for the list without
\* the text-less results, and every appended entry comes from a result with
\* a text.
C12_TextlessResultsSkipped ==
    /\ \A n \in 1..Len(taken) : docs[taken[n].idx].hasText
    /\ \A k \in 1..Len(docs) :
          (ppc = "loop" /\ di = k + 1 /\ (\A j \in 1..k : ~docs[j].hasText))
              => (used_chars = 0 /\ context = <<>>)
    /\ ppc = "done" => out = PackResult(TextDocs, max_tokens)

\* C12 witness: the first result had no text and a later one was included
C12_Witness ==
    /\ ppc = "done"
    /\ Len(docs) >= 2
    /\ ~docs[1].hasText
    /\ \E n \in 1..Len(taken) : taken[n].idx > 1
    /\ out # <<>>

\* the formatted entries of the results the call appended, joined in order
RECURSIVE TakenEntries(_)
TakenEntries(n) ==
    IF n = 0 THEN <<>>
    ELSE TakenEntries(n - 1) \o FormatEntry(docs[taken[n].idx])

\* C25: when the call truncates an entry the returned context has length
\* exactly max_tokens * 4; when it truncates none the returned context is the
\* concatenation of complete formatted entries only.
C25_TruncationFillsBudget ==
    ppc = "done" =>
        IF \E n \in 1..Len(taken) : taken[n].truncated
        THEN Len(out) = max_tokens * 4
        ELSE out = TakenEntries(Len(taken))

\* C25 witness: the call returned a whole entry followed by a truncated one
\* whose own formatted entry is longer than the whole budget
C25_Witness ==
    /\ ppc = "done"
    /\ Len(taken) >= 2
    /\ taken[Len(taken)].truncated
    /\ Len(FormatEntry(docs[taken[Len(taken)].idx])) > max_tokens * 4
    /\ Len(out) > 0

\* ------------------------------------- chunk_text and context assembly at once
\* one chunk_text call and one retrieve_for_llm_context call run side by
\* side; every step of either call may come between two steps of the other
ConcurrentTexts ==
    { <<"a", "a", "a", "a", " ", "b", "b", "b", "b">>,
      <<"a", "a", ".", " ", "a", "a", "a", ".", " ", "a">>,
      <<" ", "a">> }
ConcurrentParams == {<<5, 0>>, <<9, 0>>, <<5, 2>>, <<3, 0>>}

InitConcurrent ==
    /\ LoadIdle
    /\ OthersIdle
    /\ text \in ConcurrentTexts
    /\ \E p \in ConcurrentParams : chunk_size = p[1] /\ overlap = p[2]
    /\ pc = "call"
    /\ start = 0
    /\ chunks = <<>>
    /\ spans = <<>>
    /\ iters = 0
    /\ \E n \in {0, 1, 2} : \E ps \in [1..n -> Payloads] : docs = DocsOf(ps)
    /\ max_tokens \in TokenChoices
    /\ ppc = "call"
    /\ di = 1
    /\ context = <<>>
    /\ used_chars = 0
    /\ out = <<>>
    /\ taken = <<>>

NextConcurrent == NextChunk \/ NextPack

SpecConcurrent == InitConcurrent /\ [][NextConcurrent]_vars

\* what each call has returned is what the call returns when run alone
SameAsAlone ==
    LET r == ChunkTextResult(text, chunk_size, overlap)
    IN  /\ pc = "done" => (r.status = "done" /\ chunks = r.chunks)
        /\ pc = "raised" => r.status = "raised"
        /\ ppc = "done" => out = PackResult(docs, max_tokens)

StrId(s) == [kind |-> "str", s |-> s, n |-> 0]
IntId(k) == [kind |-> "int", s |-> <<>>, n |-> k]

\* str(doc_id)
PyStr(id) == IF id.kind = "int" THEN Str(id.n) ELSE id.s

\* str(uuid.uuid4()) drawn for the k-th document: fresh values, pairwise
\* distinct
Uuid4(k) == <<"u">> \o Str(k)

\* load_documents.py: text_field="text"
text_field == "text"

\* load_documents.py: doc.get("source", "unknown")
UnknownDocSource == <<"u", "n", "k", "n", "o", "w", "n">>

UpdateReplaces(d, u) == u

\* d.copy() followed by .update(u)
Update(d, u) ==
    [k \in (DOMAIN d) \cup (DOMAIN u) |-> IF k \in DOMAIN u THEN u[k] ELSE d[k]]

ChunkIdNoIndex(id, idx, n) == PyStr(id)

\* the id of chunk idx of a document that produced n chunks
ChunkId(id, idx, n) ==
    IF n = 1 THEN PyStr(id) ELSE PyStr(id) \o <<"_">> \o Str(idx)

IsDocumentLoader == loader = "document_loader"
IsLoadDocuments == loader = "load_documents"

\* the payload of chunk idx of a document that produced n chunks
ChunkPayload(meta, id, chunk, idx, n) ==
    IF IsDocumentLoader
    THEN Update(meta, [doc_id |-> PyStr(id), chunk_idx |-> idx, total_chunks |-> n,
                       text |-> chunk, text_len |-> Len(chunk)])
    ELSE Update(meta, [chunk_idx |-> idx, total_chunks |-> n,
                       text |-> chunk, text_len |-> Len(chunk)])

\* load_documents.py: the fields copied from doc into metadata
SelectedFields(doc) ==
    IF IsNone(metadata_fields) THEN {}
    ELSE LET fields == Get(metadata_fields)
         IN  {f \in {fields[k] : k \in 1..Len(fields)} : f \in DOMAIN doc /\ f # text_field}

\* load_documents.py: the metadata dict of one document
DocMetadata(doc, id) ==
    Update(Update([f \in SelectedFields(doc) |-> doc[f]], [doc_id |-> PyStr(id)]),
           [source |-> IF "source" \in DOMAIN doc THEN doc["source"] ELSE UnknownDocSource])

\* load_documents.py: doc_id of the document at position k
DocIdOf(doc, k) ==
    IF ~IsNone(id_field) /\ Get(id_field) \in DOMAIN doc
    THEN StrId(PyStr(doc[Get(id_field)]))
    ELSE StrId(Uuid4(k))

\* document_loader.py: metadata and ids after their defaults are filled in
MetadataList ==
    IF IsNone(metadata) THEN [k \in 1..Len(documents) |-> EmptyDict] ELSE Get(metadata)
IdList ==
    IF IsNone(ids) THEN [k \in 1..Len(documents) |-> StrId(Uuid4(k))] ELSE Get(ids)

ArgsRejectedMetadataOnly ==
    /\ IsDocumentLoader
    /\ ~IsNone(metadata) /\ Len(Get(metadata)) # Len(documents)

\* document_loader.py raises ValueError
ArgsRejected ==
    /\ IsDocumentLoader
    /\ \/ ~IsNone(metadata) /\ Len(Get(metadata)) # Len(documents)
       \/ ~IsNone(ids) /\ Len(Get(ids)) # Len(documents)

\* the inputs offered to a call
LongText == <<"a", "a", "a", "a", " ", "b", "b", "b", "b">>
LoadTexts == {<<"a">>, LongText}
IdChoices == {StrId(<<"d">>), StrId(<<"d", "_", "1">>), IntId(1)}
MetaChoices == {EmptyDict, [author |-> <<"b">>, chunk_idx |-> <<"x">>]}
DocChoices ==
    { [text |-> <<"a">>, id |-> StrId(<<"d">>)],
      [text |-> LongText, id |-> IntId(1), source |-> <<"s">>, author |-> <<"b">>],
      [id |-> StrId(<<"d">>)],
      [text |-> <<"a">>] }
ChunkParams == {<<5, 0>>, <<9, 0>>, <<5, 2>>}
BatchSizes == {0, 1, 2}

\* None, a list of n elements, or a list one element short
OptionalLists(n, S) ==
    {None} \cup {Some(x) : x \in [1..n -> S] \cup [1..(n - 1) -> S]}

InitLoad ==
    /\ ChunkIdle
    /\ PackIdle
    /\ OthersIdle
    /\ \E n \in 0..MaxDocs :
         \/ /\ loader = "document_loader"
            /\ documents \in [1..n -> LoadTexts]
            /\ metadata \in OptionalLists(n, MetaChoices)
            /\ ids \in OptionalLists(n, IdChoices)
            /\ id_field = None
            /\ metadata_fields = None
            /\ collection_exists = TRUE
         \/ /\ loader = "load_documents"
            /\ documents \in [1..n -> DocChoices]
            /\ metadata = None
            /\ ids = None
            /\ id_field \in {None, Some("id")}
            /\ metadata_fields \in {None, Some(<<"author", "text">>)}
            /\ collection_exists \in BOOLEAN
    /\ \E p \in ChunkParams : doc_chunk_size = p[1] /\ chunk_overlap = p[2]
    /\ batch_size \in BatchSizes
    /\ lpc = "call"
    /\ doc_i = 1
    /\ doc_id = <<>>
    /\ doc_meta = EmptyDict
    /\ doc_chunks = <<>>
    /\ chunk_idx = 0
    /\ all_points = <<>>
    /\ all_chunk_ids = <<>>
    /\ all_doc_ids = <<>>
    /\ result = <<>>
    /\ added = <<>>
    /\ made = <<>>

\* argument checks and the collection lookup
LoadCall ==
    /\ lpc = "call"
    /\ lpc' = IF ArgsRejected THEN "raised"
              ELSE IF IsLoadDocuments /\ ~collection_exists THEN "done"
              ELSE "doc"
    /\ UNCHANGED <<doc_i, doc_id, doc_meta, doc_chunks, chunk_idx, all_points,
                   all_chunk_ids, all_doc_ids, result, added, made, largs, cvars, pvars, xvars>>

\* the head of one document iteration, up to the chunk_text call
LoadDoc ==
    /\ lpc = "doc"
    /\ doc_i <= Len(documents)
    /\ LET doc == documents[doc_i]
       IN  IF IsLoadDocuments /\ text_field \notin DOMAIN doc
           THEN /\ doc_i' = doc_i + 1
                /\ UNCHANGED <<lpc, doc_id, doc_meta, doc_chunks, chunk_idx, all_doc_ids>>
           ELSE LET txt == IF IsDocumentLoader THEN doc ELSE doc[text_field]
                    id == IF IsDocumentLoader THEN IdList[doc_i] ELSE DocIdOf(doc, doc_i)
                    meta == IF IsDocumentLoader THEN MetadataList[doc_i] ELSE DocMetadata(doc, id)
                    r == ChunkTextResult(txt, doc_chunk_size, chunk_overlap)
                IN  /\ all_doc_ids' = IF IsLoadDocuments
                                      THEN Append(all_doc_ids, PyStr(id)) ELSE all_doc_ids
                    /\ doc_id' = id
                    /\ doc_meta' = meta
                    /\ IF r.status = "done"
                       THEN /\ doc_chunks' = r.chunks
                            /\ chunk_idx' = 0
                            /\ IF r.chunks = <<>>
                               THEN lpc' = "doc" /\ doc_i' = doc_i + 1
                               ELSE lpc' = "chunk" /\ UNCHANGED doc_i
                       ELSE /\ lpc' = r.status
                            /\ UNCHANGED <<doc_chunks, chunk_idx, doc_i>>
    /\ UNCHANGED <<all_points, all_chunk_ids, result, added, made, largs, cvars, pvars, xvars>>

BatchFullStrict(points, size) == Len(points) > size

\* if len(all_points) >= batch_size
BatchFull(points, size) == Len(points) >= size

\* the chunk loop moves on to the next chunk or the next document
AdvanceChunk ==
    IF chunk_idx + 1 < Len(doc_chunks)
    THEN chunk_idx' = chunk_idx + 1 /\ UNCHANGED <<lpc, doc_i>>
    ELSE lpc' = "doc" /\ doc_i' = doc_i + 1 /\ UNCHANGED chunk_idx

\* one iteration of the chunk loop, the batch upload included
LoadChunk ==
    /\ lpc = "chunk"
    /\ chunk_idx < Len(doc_chunks)
    /\ LET chunk == doc_chunks[chunk_idx + 1]
           n == Len(doc_chunks)
           chunk_id == ChunkId(doc_id, chunk_idx, n)
           payload == ChunkPayload(doc_meta, doc_id, chunk, chunk_idx, n)
           points == Append(all_points, [id |-> chunk_id, payload |-> payload])
       IN  /\ all_chunk_ids' = IF IsDocumentLoader
                               THEN Append(all_chunk_ids, chunk_id) ELSE all_chunk_ids
           /\ made' = Append(made, [doc |-> doc_i, id |-> chunk_id,
                                    payload |-> payload, parent |-> doc_meta])
           /\ \E ok \in BOOLEAN :
                IF BatchFull(points, batch_size)
                THEN /\ added' = Append(added, [points |-> points, ok |-> ok])
                     /\ IF ok \/ IsLoadDocuments
                        THEN all_points' = <<>> /\ AdvanceChunk
                        ELSE /\ all_points' = points
                             /\ lpc' = "raised"
                             /\ UNCHANGED <<chunk_idx, doc_i>>
                ELSE /\ ok
                     /\ all_points' = points
                     /\ AdvanceChunk
                     /\ UNCHANGED added
    /\ UNCHANGED <<doc_id, doc_meta, doc_chunks, all_doc_ids, result, largs, cvars, pvars, xvars>>

\* after the document loop: the last upload and the return
LoadFinal ==
    /\ lpc = "doc"
    /\ doc_i > Len(documents)
    /\ \E ok \in BOOLEAN :
         IF all_points # <<>>
         THEN /\ added' = Append(added, [points |-> all_points, ok |-> ok])
              /\ IF ok \/ IsLoadDocuments
                 THEN /\ lpc' = "done"
                      /\ result' = IF IsDocumentLoader THEN all_chunk_ids ELSE all_doc_ids
                 ELSE lpc' = "raised" /\ UNCHANGED result
         ELSE /\ ok
              /\ lpc' = "done"
              /\ result' = IF IsDocumentLoader THEN all_chunk_ids ELSE all_doc_ids
              /\ UNCHANGED added
    /\ UNCHANGED <<doc_i, doc_id, doc_meta, doc_chunks, chunk_idx, all_points,
                   all_chunk_ids, all_doc_ids, made, largs, cvars, pvars, xvars>>

NextLoad == LoadCall \/ LoadDoc \/ LoadChunk \/ LoadFinal

SpecLoad == InitLoad /\ [][NextLoad]_vars

\* -------------------------------------------------- load_documents: claims
\* the text of the document at position k
DocText(k) ==
    IF IsDocumentLoader THEN documents[k] ELSE documents[k][text_field]

\* the document id at position k, as a string
DocIdString(k) ==
    IF IsDocumentLoader THEN PyStr(IdList[k])
    ELSE IF ~IsNone(id_field) /\ Get(id_field) \in DOMAIN documents[k]
         THEN PyStr(documents[k][Get(id_field)])
         ELSE Uuid4(k)

\* the number of chunks chunk_text produces for the document at position k
TotalChunks(k) == Len(ChunkTextResult(DocText(k), doc_chunk_size, chunk_overlap).chunks)

\* the points built for the document at position k, in the order built
PointsOf(k) == SelectSeq(made, LAMBDA m : m.doc = k)

\* C15: within one document the chunk ids are pairwise distinct; the id is
\* the document id alone when the document produced exactly one chunk and
\* "{doc_id}_{chunk_idx}" for each chunk otherwise (both loaders).
C15_ChunkIdsDistinctWithinDocument ==
    \A p \in 1..Len(made) :
        /\ made[p].id = IF TotalChunks(made[p].doc) = 1
                        THEN DocIdString(made[p].doc)
                        ELSE DocIdString(made[p].doc) \o <<"_">>
                                 \o Str(made[p].payload.chunk_idx)
        /\ \A q \in 1..Len(made) :
               (p # q /\ made[p].doc = made[q].doc) => made[p].id # made[q].id

\* C15 witness: a call returned after building the points of a document with
\* several chunks and of a document with one chunk
C15_Witness ==
    /\ lpc = "done"
    /\ \E k \in 1..Len(documents) : Len(PointsOf(k)) >= 2
    /\ \E k \in 1..Len(documents) : Len(PointsOf(k)) = 1 /\ PointsOf(k)[1].id = DocIdString(k)

ChunkKeys == {"chunk_idx", "total_chunks", "text_len"}

\* C16: every chunk payload has every key of the parent's metadata plus
\* chunk_idx, total_chunks and text_len; total_chunks is the number of chunks
\* of the document, chunk_idx runs 0..total_chunks-1 once each in order, and
\* text_len is the length of the stored text (both loaders).
C16_PayloadInheritsAndCounts ==
    /\ \A p \in 1..Len(made) :
          LET m == made[p] IN
          /\ IsDocumentLoader => m.parent = MetadataList[m.doc]
          /\ IsLoadDocuments =>
                 SelectedFields(documents[m.doc]) \cup {"doc_id", "source"} = DOMAIN m.parent
          /\ (DOMAIN m.parent) \cup ChunkKeys \subseteq DOMAIN m.payload
          /\ \A k \in (DOMAIN m.parent) \ (ChunkKeys \cup {"text", "doc_id"}) :
                 m.payload[k] = m.parent[k]
          /\ m.payload.total_chunks = TotalChunks(m.doc)
          /\ m.payload.text_len = Len(m.payload.text)
    /\ \A k \in 1..Len(documents) :
          LET ps == PointsOf(k) IN
          /\ \A j \in 1..Len(ps) : ps[j].payload.chunk_idx = j - 1
          /\ Len(ps) > 0 => Len(ps) <= TotalChunks(k)
          /\ (Len(ps) > 0 /\ (lpc = "done" \/ doc_i > k)) => Len(ps) = TotalChunks(k)

\* C16 witness: a call returned after loading a document of several chunks
\* whose metadata has a key of its own and a key the chunk fields override
C16_Witness ==
    /\ lpc = "done"
    /\ \E p \in 1..Len(made) :
          /\ made[p].payload.total_chunks >= 2
          /\ made[p].payload.chunk_idx = made[p].payload.total_chunks - 1
          /\ {"author", "chunk_idx"} \subseteq DOMAIN made[p].parent

\* C20: in a document_loader call whose document ids are pairwise distinct,
\* the chunk ids generated are pairwise distinct across all documents.
C20_ChunkIdsDistinctAcrossDocuments ==
    ( /\ IsDocumentLoader
      /\ ~ArgsRejected
      /\ \A a, b \in 1..Len(IdList) : a # b => IdList[a] # IdList[b] )
    => \A p, q \in 1..Len(all_chunk_ids) :
           p # q => all_chunk_ids[p] # all_chunk_ids[q]

\* the positions of the documents load_documents.py does not skip
RECURSIVE TextDocPositions(_)
TextDocPositions(k) ==
    IF k = 0 THEN <<>>
    ELSE IF text_field \in DOMAIN documents[k]
         THEN Append(TextDocPositions(k - 1), k)
         ELSE TextDocPositions(k - 1)

\* the point was part of a client.add call that completed without raising
Uploaded(m) ==
    \E a \in 1..Len(added) :
        /\ added[a].ok
        /\ \E j \in 1..Len(added[a].points) :
               added[a].points[j] = [id |-> m.id, payload |-> m.payload]

\* C21: in load_documents.py every document id in the returned list belongs
\* to a document all of whose chunks were passed to a client.add call that
\* completed without raising.
C21_ReturnedIdsWereUploaded ==
    (IsLoadDocuments /\ lpc = "done" /\ collection_exists) =>
        LET pos == TextDocPositions(Len(documents))
        IN  /\ Len(result) = Len(pos)
            /\ \A j \in 1..Len(result) :
                   /\ result[j] = DocIdString(pos[j])
                   /\ \A p \in 1..Len(made) : made[p].doc = pos[j] => Uploaded(made[p])

\* the points of all client.add calls so far, in call order
RECURSIVE AddedPoints(_)
AddedPoints(a) ==
    IF a = 0 THEN <<>> ELSE AddedPoints(a - 1) \o added[a].points

\* the chunks of the documents at positions 1..k as points, in document
\* order then chunk order
RECURSIVE ExpectedPoints(_)
ExpectedPoints(k) ==
    IF k = 0 THEN <<>>
    ELSE LET cs == ChunkTextResult(documents[k], doc_chunk_size, chunk_overlap).chunks
             did == PyStr(IdList[k])
         IN  ExpectedPoints(k - 1) \o
             [j \in 1..Len(cs) |->
                 [id |-> IF Len(cs) = 1 THEN did ELSE did \o <<"_">> \o Str(j - 1),
                  text |-> cs[j]]]

PointsAsChunks(ps) == [j \in 1..Len(ps) |-> [id |-> ps[j].id, text |-> ps[j].payload.text]]

\* C22: document_loader with batch_size >= 1 and no upload error: every
\* chunk of every document is passed to client.add exactly once, in document
\* order then chunk order; every batch but the last holds exactly batch_size
\* points, the last between 1 and batch_size; the returned list has one id
\* per uploaded point, in upload order.
C22_BatchesCoverChunksInOrder ==
    ( /\ IsDocumentLoader
      /\ batch_size >= 1
      /\ \A a \in 1..Len(added) : added[a].ok )
    => /\ \A a \in 1..Len(added) :
             /\ Len(added[a].points) >= 1
             /\ Len(added[a].points) <= batch_size
             /\ (a < Len(added) \/ lpc # "done") => Len(added[a].points) = batch_size
       /\ AddedPoints(Len(added)) \o (IF lpc = "done" THEN <<>> ELSE all_points)
              = [p \in 1..Len(made) |-> [id |-> made[p].id, payload |-> made[p].payload]]
       /\ lpc = "done" =>
             /\ PointsAsChunks(AddedPoints(Len(added))) = ExpectedPoints(Len(documents))
             /\ result = [j \in 1..Len(AddedPoints(Len(added))) |-> AddedPoints(Len(added))[j].id]

\* C22 witness: a call returned after uploading a full batch and a
\* shorter last one
C22_Witness ==
    /\ IsDocumentLoader
    /\ lpc = "done"
    /\ batch_size >= 2
    /\ Len(added) >= 2
    /\ \A a \in 1..Len(added) : added[a].ok
    /\ Len(added[Len(added)].points) < batch_size

\* a metadata list or an ids list was supplied whose length differs from the
\* number of documents
LengthMismatch ==
    \/ metadata # {} /\ \E x \in metadata : Len(x) # Len(documents)
    \/ ids # {} /\ \E x \in ids : Len(x) # Len(documents)

\* C26: document_loader raises ValueError when a metadata list or an ids list
\* of another length than documents is supplied, and no client.add call is
\* made.
C26_LengthMismatchRaises ==
    (IsDocumentLoader /\ LengthMismatch /\ lpc # "call") =>
        /\ lpc = "raised"
        /\ added = <<>>
        /\ made = <<>>

\* C26 witness: the call raised on an ids list one element short while the
\* metadata list had the right length
C26_Witness ==
    /\ IsDocumentLoader
    /\ lpc = "raised"
    /\ Len(documents) >= 2
    /\ \E x \in ids : Len(x) # Len(documents)
    /\ \E x \in metadata : Len(x) = Len(documents)

\* --------------------------------------------------- setup_hybrid_collection
\* setup_llm_collection.py: DEFAULT_COLLECTION_NAME
DEFAULT_COLLECTION_NAME == "llm_documents"

\* the point setup adds to have the collection created (sample_ids = [1]),
\* and a point someone loaded
SamplePoint == "sample"
UserPoint == "user"

\* store operations: the collection list, dropping and creating a
\* collection, adding and deleting points
Exists(st, name) == name \in DOMAIN st
DeleteCollection(st, name) == [c \in (DOMAIN st) \ {name} |-> st[c]]
CreateCollection(st, name) == [c \in (DOMAIN st) \cup {name} |-> IF c = name THEN {} ELSE st[c]]
AddPoints(st, name, ps) ==
    [c \in (DOMAIN st) \cup {name} |->
        IF c = name THEN (IF Exists(st, name) THEN st[name] ELSE {}) \cup ps ELSE st[c]]
DeletePoints(st, name, ps) == [c \in DOMAIN st |-> IF c = name THEN st[c] \ ps ELSE st[c]]

\* the stores a first call can find: no collection, an empty one, one with a
\* loaded point
SetupStores ==
    { EmptyDict,
      CreateCollection(EmptyDict, DEFAULT_COLLECTION_NAME),
      AddPoints(EmptyDict, DEFAULT_COLLECTION_NAME, {UserPoint}) }

InitSetup ==
    /\ ChunkIdle
    /\ PackIdle
    /\ LoadIdle
    /\ WaitIdle
    /\ CreateIdle
    /\ JsonIdle
    /\ QueryIdle
    /\ store \in SetupStores
    /\ client_calls = <<>>
    /\ force = FALSE
    /\ sparse_model = FALSE
    /\ setup_pc = "ready"
    /\ setup_result = "none"
    /\ setup_calls = 0

\* the except branch: log and return False
SetupFails ==
    /\ setup_pc' = "ready"
    /\ setup_result' = "False"

\* a call of setup_hybrid_collection begins
SetupCall ==
    /\ setup_pc = "ready"
    /\ setup_calls < MaxSetupCalls
    /\ setup_calls' = setup_calls + 1
    /\ force' \in BOOLEAN
    /\ sparse_model' \in BOOLEAN
    /\ setup_pc' = "check"
    /\ setup_result' = "none"
    /\ client_calls' = <<>>
    /\ UNCHANGED <<store, cvars, pvars, lvars, wvars, kvars, jvars, qvars>>

\* get_collections and the branch on an existing collection
SetupCheck ==
    /\ setup_pc = "check"
    /\ \/ /\ client_calls' = Append(client_calls, "get_collections")
          /\ SetupFails
          /\ UNCHANGED store
       \/ /\ Exists(store, DEFAULT_COLLECTION_NAME)
          /\ ~force
          /\ client_calls' = Append(client_calls, "get_collections")
          /\ setup_pc' = "ready"
          /\ setup_result' = "True"
          /\ UNCHANGED store
       \/ /\ Exists(store, DEFAULT_COLLECTION_NAME)
          /\ force
          /\ client_calls' = client_calls \o <<"get_collections", "delete_collection">>
          /\ \/ SetupFails /\ UNCHANGED store
             \/ /\ store' = DeleteCollection(store, DEFAULT_COLLECTION_NAME)
                /\ setup_pc' = "models"
                /\ UNCHANGED setup_result
       \/ /\ ~Exists(store, DEFAULT_COLLECTION_NAME)
          /\ client_calls' = Append(client_calls, "get_collections")
          /\ setup_pc' = "models"
          /\ UNCHANGED <<store, setup_result>>
    /\ UNCHANGED <<force, sparse_model, setup_calls, cvars, pvars, lvars, wvars, kvars, jvars, qvars>>

\* set_model and, for a sparse model, set_sparse_model
SetupModels ==
    /\ setup_pc = "models"
    /\ \/ /\ client_calls' = Append(client_calls, "set_model")
          /\ SetupFails
       \/ /\ sparse_model
          /\ client_calls' = client_calls \o <<"set_model", "set_sparse_model">>
          /\ \/ SetupFails
             \/ setup_pc' = "add" /\ UNCHANGED setup_result
       \/ /\ ~sparse_model
          /\ client_calls' = Append(client_calls, "set_model")
          /\ setup_pc' = "add"
          /\ UNCHANGED setup_result
    /\ UNCHANGED <<store, force, sparse_model, setup_calls, cvars, pvars, lvars, wvars, kvars, jvars, qvars>>

\* client.add of the sample document: raises before it did anything, raises
\* after it created the collection, or creates the collection and stores the
\* point
SetupAdd ==
    /\ setup_pc = "add"
    /\ client_calls' = Append(client_calls, "add")
    /\ \/ SetupFails /\ UNCHANGED store
       \/ /\ SetupFails
          /\ store' = AddPoints(store, DEFAULT_COLLECTION_NAME, {})
       \/ /\ store' = AddPoints(store, DEFAULT_COLLECTION_NAME, {SamplePoint})
          /\ setup_pc' = "update"
          /\ UNCHANGED setup_result
    /\ UNCHANGED <<force, sparse_model, setup_calls, cvars, pvars, lvars, wvars, kvars, jvars, qvars>>

\* client.update_collection
SetupUpdate ==
    /\ setup_pc = "update"
    /\ client_calls' = Append(client_calls, "update_collection")
    /\ \/ SetupFails
       \/ setup_pc' = "delete" /\ UNCHANGED setup_result
    /\ UNCHANGED <<store, force, sparse_model, setup_calls, cvars, pvars, lvars, wvars, kvars, jvars, qvars>>

\* client.delete of the sample point and return True
SetupDelete ==
    /\ setup_pc = "delete"
    /\ client_calls' = Append(client_calls, "delete")
    /\ \/ SetupFails /\ UNCHANGED store
       \/ /\ store' = DeletePoints(store, DEFAULT_COLLECTION_NAME, {SamplePoint})
          /\ setup_pc' = "ready"
          /\ setup_result' = "True"
    /\ UNCHANGED <<force, sparse_model, setup_calls, cvars, pvars, lvars, wvars, kvars, jvars, qvars>>

NextSetup ==
    SetupCall \/ SetupCheck \/ SetupModels \/ SetupAdd \/ SetupUpdate \/ SetupDelete

SpecSetup == InitSetup /\ [][NextSetup]_vars

\* C23: after any sequence of setup_hybrid_collection calls, failed ones
\* included, whenever a call returns True the collection does not contain
\* the initialization sample point.
C23_NoSamplePointAfterSuccess ==
    (setup_pc = "ready" /\ setup_result = "True") =>
        ~(/\ DEFAULT_COLLECTION_NAME \in DOMAIN store
          /\ SamplePoint \in store[DEFAULT_COLLECTION_NAME])

\* ---------------------------------------------------- wait_for_qdrant_server
RetryIntervals == {0, 1, 5}

Attempt(ok) == [kind |-> IF ok THEN "connected" ELSE "failed", secs |-> 0]
Sleep(secs) == [kind |-> "sleep", secs |-> secs]

SleepsAfterEvery(i, n) == i < n

\* if i < max_retries - 1
SleepsAfter(i, n) == i < n - 1

InitWait ==
    /\ ChunkIdle
    /\ PackIdle
    /\ LoadIdle
    /\ SetupIdle
    /\ CreateIdle
    /\ JsonIdle
    /\ QueryIdle
    /\ max_retries \in 0..MaxRetries
    /\ retry_interval \in RetryIntervals
    /\ wait_i = 0
    /\ wait_pc = "attempt"
    /\ wait_result = "none"
    /\ wait_events = <<>>

\* one pass of the for loop up to the sleep: test_connection() returns a
\* client or, on any exception, None
WaitAttempt ==
    /\ wait_pc = "attempt"
    /\ wait_i < max_retries
    /\ \E ok \in BOOLEAN :
         /\ wait_events' = Append(wait_events, Attempt(ok))
         /\ IF ok
            THEN wait_pc' = "done" /\ wait_result' = "client" /\ UNCHANGED wait_i
            ELSE /\ UNCHANGED wait_result
                 /\ IF SleepsAfter(wait_i, max_retries)
                    THEN wait_pc' = "sleep" /\ UNCHANGED wait_i
                    ELSE wait_pc' = "attempt" /\ wait_i' = wait_i + 1
    /\ UNCHANGED <<max_retries, retry_interval, cvars, pvars, lvars, svars, kvars, jvars, qvars>>

\* time.sleep(retry_interval), then the next pass
WaitSleep ==
    /\ wait_pc = "sleep"
    /\ wait_events' = Append(wait_events, Sleep(retry_interval))
    /\ wait_i' = wait_i + 1
    /\ wait_pc' = "attempt"
    /\ UNCHANGED <<max_retries, retry_interval, wait_result,
                   cvars, pvars, lvars, svars, kvars, jvars, qvars>>

\* the loop is exhausted: return None
WaitGiveUp ==
    /\ wait_pc = "attempt"
    /\ wait_i >= max_retries
    /\ wait_pc' = "done"
    /\ wait_result' = "None"
    /\ UNCHANGED <<max_retries, retry_interval, wait_i, wait_events,
                   cvars, pvars, lvars, svars, kvars, jvars, qvars>>

NextWait == WaitAttempt \/ WaitSleep \/ WaitGiveUp

SpecWait == InitWait /\ [][NextWait]_vars

\* the positions of the connection attempts among the events
AttemptPositions == {j \in 1..Len(wait_events) : wait_events[j].kind # "sleep"}
FailedPositions == {j \in 1..Len(wait_events) : wait_events[j].kind = "failed"}

\* C27: at most max_retries attempts are made; the client of the first
\* successful attempt is returned with no attempt after it; None is returned
\* only after exactly max_retries failed attempts; the call sleeps
\* retry_interval between two consecutive attempts and never after the last
\* attempt.
C27_RetriesBoundedAndSleepsBetween ==
    /\ Cardinality(AttemptPositions) <= max_retries
    /\ \A j \in 1..Len(wait_events) :
          /\ wait_events[j].kind = "connected" =>
                 (j = Len(wait_events) /\ wait_pc = "done" /\ wait_result = "client")
          /\ wait_events[j].kind = "sleep" =>
                 /\ wait_events[j].secs = retry_interval
                 /\ j > 1 /\ wait_events[j - 1].kind = "failed"
                 /\ Cardinality({a \in AttemptPositions : a < j}) < max_retries
                 /\ wait_pc = "done" => j < Len(wait_events)
          /\ (j > 1 /\ wait_events[j].kind # "sleep") => wait_events[j - 1].kind = "sleep"
    /\ (wait_pc = "done" /\ wait_result = "client") =>
          (Len(wait_events) >= 1 /\ wait_events[Len(wait_events)].kind = "connected")
    /\ (wait_pc = "done" /\ wait_result = "None") =>
          (Cardinality(FailedPositions) = max_retries /\ AttemptPositions = FailedPositions)
    /\ wait_pc = "done" => wait_result \in {"client", "None"}

\* C27 witness: every attempt of a call with several retries failed and the
\* call returned None
C27_Witness ==
    /\ wait_pc = "done"
    /\ wait_result = "None"
    /\ max_retries >= 3
    /\ Len(wait_events) = 2 * max_retries - 1

\* ----------------------------------------------------- create_llm_collection
\* client.py: DEFAULT_COLLECTION
DEFAULT_COLLECTION == "llm_documents"
CollectionNames == {DEFAULT_COLLECTION, "notes", "archive"}

\* the stores a call can find: each collection absent, empty or holding a
\* point
CreateStores ==
    UNION { [names -> {{}, {UserPoint}}] : names \in SUBSET CollectionNames }

DropsExistingAlways(ow) == TRUE

\* if overwrite: drop the existing collection
DropsExisting(ow) == ow

InitCreate ==
    /\ ChunkIdle
    /\ PackIdle
    /\ LoadIdle
    /\ WaitIdle
    /\ JsonIdle
    /\ QueryIdle
    /\ store \in CreateStores
    /\ found_store = store
    /\ client_calls = <<>>
    /\ force = FALSE
    /\ sparse_model = FALSE
    /\ setup_pc = "idle"
    /\ setup_result = "none"
    /\ setup_calls = 0
    /\ create_name \in {DEFAULT_COLLECTION, "notes"}
    /\ overwrite \in BOOLEAN
    /\ create_pc = "call"
    /\ create_result = "none"

\* get_collections and the branch on an existing collection; an exception
\* of the client leaves the call
CreateCheck ==
    /\ create_pc = "call"
    /\ \/ /\ client_calls' = Append(client_calls, "get_collections")
          /\ create_pc' = "raised"
          /\ UNCHANGED <<store, create_result>>
       \/ /\ client_calls' = Append(client_calls, "get_collections")
          /\ ~Exists(store, create_name)
          /\ create_pc' = "create"
          /\ UNCHANGED <<store, create_result>>
       \/ /\ Exists(store, create_name)
          /\ IF DropsExisting(overwrite)
             THEN /\ client_calls' = client_calls \o <<"get_collections", "delete_collection">>
                  /\ UNCHANGED create_result
                  /\ \/ create_pc' = "raised" /\ UNCHANGED store
                     \/ /\ store' = DeleteCollection(store, create_name)
                        /\ create_pc' = "create"
             ELSE /\ client_calls' = Append(client_calls, "get_collections")
                  /\ create_pc' = "done"
                  /\ create_result' = "True"
                  /\ UNCHANGED store
    /\ UNCHANGED <<create_name, overwrite, found_store, force, sparse_model, setup_pc,
                   setup_result, setup_calls, cvars, pvars, lvars, wvars, jvars, qvars>>

\* client.create_collection and return True
CreateCollectionStep ==
    /\ create_pc = "create"
    /\ client_calls' = Append(client_calls, "create_collection")
    /\ \/ create_pc' = "raised" /\ UNCHANGED <<store, create_result>>
       \/ /\ store' = CreateCollection(store, create_name)
          /\ create_pc' = "done"
          /\ create_result' = "True"
    /\ UNCHANGED <<create_name, overwrite, found_store, force, sparse_model, setup_pc,
                   setup_result, setup_calls, cvars, pvars, lvars, wvars, jvars, qvars>>

NextCreate == CreateCheck \/ CreateCollectionStep

SpecCreate == InitCreate /\ [][NextCreate]_vars

\* the positions in client_calls of the calls of one client method
CallsOf(method) == {j \in 1..Len(client_calls) : client_calls[j] = method}

\* C28: when create_llm_collection returns, the named collection exists and
\* the result is True; if the collection existed and overwrite is False,
\* neither delete_collection nor create_collection is called and the store
\* is unchanged; if it existed and overwrite is True, delete_collection is
\* called before create_collection.
C28_CreateLeavesCollection ==
    /\ create_pc = "done" =>
          (create_name \in DOMAIN store /\ create_result = "True")
    /\ (create_name \in DOMAIN found_store /\ ~overwrite) =>
          /\ CallsOf("delete_collection") = {}
          /\ CallsOf("create_collection") = {}
          /\ store = found_store
          /\ create_pc \in {"call", "done", "raised"}
    /\ (create_name \in DOMAIN found_store /\ overwrite) =>
          /\ \A c \in CallsOf("create_collection") :
                 \E d \in CallsOf("delete_collection") : d < c
          /\ create_pc = "done" =>
                 (CallsOf("create_collection") # {} /\ store[create_name] = {})
    /\ (create_name \notin DOMAIN found_store) => CallsOf("delete_collection") = {}

\* C28 witness: a call with overwrite returned after replacing a collection
\* that held a point, next to another collection it left alone
C28_Witness ==
    /\ create_pc = "done"
    /\ overwrite
    /\ create_name \in DOMAIN found_store
    /\ found_store[create_name] = {UserPoint}
    /\ store[create_name] = {}
    /\ \E c \in DOMAIN store : c # create_name /\ store[c] = {UserPoint}
    /\ client_calls = <<"get_collections", "delete_collection", "create_collection">>

\* ------------------------------------------------- load_data.load_from_json
\* longest JSON list read from the file
MaxItems == 2

\* load_data.py: text_field: str = "text"
JsonTextField == "text"

\* the objects of the file: each has or lacks the text field and a title
JsonItems ==
    UNION { [keys -> {"a", "b"}] : keys \in SUBSET {JsonTextField, "title"} }

JsonFiles ==
    {[is_list |-> TRUE, items |-> its] :
        its \in UNION {[1..n -> JsonItems] : n \in 0..MaxItems}}
    \cup {[is_list |-> FALSE, items |-> <<>>]}

\* [item[text_field] for item in data if text_field in item]
RECURSIVE ItemTexts(_)
ItemTexts(data) ==
    IF data = <<>> THEN <<>>
    ELSE (IF JsonTextField \in DOMAIN Head(data)
          THEN <<Head(data)[JsonTextField]>> ELSE <<>>) \o ItemTexts(Tail(data))

\* {k: v for k, v in item.items() if k != text_field}
RestOf(item) == [k \in DOMAIN item \ {JsonTextField} |-> item[k]]

\* [{...} for item in data]: one entry for every item
RestOfItems(data) == [k \in 1..Len(data) |-> RestOf(data[k])]

InitJson ==
    /\ ChunkIdle
    /\ PackIdle
    /\ LoadIdle
    /\ SetupIdle
    /\ WaitIdle
    /\ CreateIdle
    /\ QueryIdle
    /\ json_data \in JsonFiles
    /\ json_documents = <<>>
    /\ json_metadata = <<>>
    /\ json_pc = "call"

\* the two comprehensions, or ValueError for a file that holds no list
JsonBuild ==
    /\ json_pc = "call"
    /\ IF json_data.is_list
       THEN /\ json_documents' = ItemTexts(json_data.items)
            /\ json_metadata' = RestOfItems(json_data.items)
            /\ json_pc' = "built"
       ELSE /\ json_pc' = "raised"
            /\ UNCHANGED <<json_documents, json_metadata>>
    /\ UNCHANGED <<json_data, cvars, pvars, lvars, svars, wvars, kvars, qvars>>

\* load_documents(documents, metadata): the client calls may raise, and the
\* average printed after client.add divides by len(documents)
JsonLoad ==
    /\ json_pc = "built"
    /\ \/ json_pc' = "raised"
       \/ /\ Len(json_documents) > 0
          /\ json_pc' = "loaded"
    /\ UNCHANGED <<json_data, json_documents, json_metadata,
                   cvars, pvars, lvars, svars, wvars, kvars, qvars>>

NextJson == JsonBuild \/ JsonLoad

SpecJson == InitJson /\ [][NextJson]_vars

\* the positions in the file of the items that have the text field, in order
RECURSIVE TextItemPositions(_, _)
TextItemPositions(data, from) ==
    IF from > Len(data) THEN <<>>
    ELSE (IF JsonTextField \in DOMAIN data[from] THEN <<from>> ELSE <<>>)
         \o TextItemPositions(data, from + 1)

\* C29: the documents and the metadata that load_from_json passes to
\* load_documents have the same length, and metadata[k] holds the other
\* fields of the item that documents[k] was read from.
C29_JsonListsAligned ==
    json_pc \in {"built", "loaded"} =>
        LET pos == TextItemPositions(json_data.items, 1)
        IN  /\ Len(json_documents) = Len(json_metadata)
            /\ Len(json_documents) = Len(pos)
            /\ \A k \in 1..Len(json_documents) :
                   /\ json_documents[k] = json_data.items[pos[k]][JsonTextField]
                   /\ json_metadata[k] = RestOf(json_data.items[pos[k]])

\* ------------------------------------------- query_documents.query_documents
\* number of client.query requests recorded on one client
MaxQueries == 2

\* the arguments of a call; hybrid_alpha in tenths
QueryArgs ==
    [query_text : {"q"}, collection_name : {DEFAULT_COLLECTION_NAME},
     limit : {10}, filter_obj : {None}, with_payload : {TRUE},
     hybrid : BOOLEAN, hybrid_alpha : {3, 7}, hnsw_ef : {64, 128},
     exact : BOOLEAN]

\* common_params: the keyword arguments of client.query
CommonParams(args) ==
    [collection_name |-> args.collection_name,
     query_text |-> args.query_text,
     query_filter |-> args.filter_obj,
     limit |-> args.limit]

\* "hybrid" if has_sparse_model and hybrid else "dense"
SearchType(sparse, hybrid) == IF sparse /\ hybrid THEN "hybrid" ELSE "dense"

InitQuery ==
    /\ ChunkIdle
    /\ PackIdle
    /\ LoadIdle
    /\ SetupIdle
    /\ WaitIdle
    /\ CreateIdle
    /\ JsonIdle
    /\ query_args = EmptyDict
    /\ has_sparse_model \in BOOLEAN
    /\ collection_known = FALSE
    /\ query_pc = "ready"
    /\ search_type = ""
    /\ query_result = "none"
    /\ requests = <<>>

\* a caller enters query_documents
QueryCall ==
    /\ query_pc \in {"ready", "done", "raised"}
    /\ Len(requests) < MaxQueries
    /\ query_args' \in QueryArgs
    /\ query_pc' = "validate"
    /\ query_result' = "none"
    /\ search_type' = ""
    /\ UNCHANGED <<has_sparse_model, collection_known, requests,
                   cvars, pvars, lvars, svars, wvars, kvars, jvars>>

\* get_collections, outside the try: its exception leaves the call; a
\* missing collection returns []
QueryValidate ==
    /\ query_pc = "validate"
    /\ \/ query_pc' = "raised" /\ UNCHANGED <<collection_known, query_result>>
       \/ /\ collection_known' = FALSE
          /\ query_result' = "empty"
          /\ query_pc' = "done"
       \/ /\ collection_known' = TRUE
          /\ query_pc' = "search"
          /\ UNCHANGED query_result
    /\ UNCHANGED <<query_args, has_sparse_model, search_type, requests,
                   cvars, pvars, lvars, svars, wvars, kvars, jvars>>

\* the search: search_type is chosen for the log, client.query is called
\* with common_params, and its exception turns into []
QuerySend ==
    /\ query_pc = "search"
    /\ search_type' = SearchType(has_sparse_model, query_args.hybrid)
    /\ requests' = Append(requests, [args |-> query_args,
                                     sparse |-> has_sparse_model,
                                     request |-> CommonParams(query_args)])
    /\ query_result' \in {"results", "empty"}
    /\ query_pc' = "done"
    /\ UNCHANGED <<query_args, has_sparse_model, collection_known,
                   cvars, pvars, lvars, svars, wvars, kvars, jvars>>

NextQuery == QueryCall \/ QueryValidate \/ QuerySend

SpecQuery == InitQuery /\ [][NextQuery]_vars

\* the search-mode arguments of a call
SearchMode(args) == <<args.hybrid, args.hybrid_alpha, args.hnsw_ef, args.exact>>

\* C30: on a client with a sparse model set, two query_documents calls whose
\* search-mode arguments (hybrid, hybrid_alpha, hnsw_ef, exact) differ issue
\* different client.query requests.
C30_SearchModeReachesRequest ==
    \A i, j \in 1..Len(requests) :
        (/\ requests[i].sparse
         /\ requests[j].sparse
         /\ SearchMode(requests[i].args) # SearchMode(requests[j].args))
        => requests[i].request # requests[j].request

====
